---- MODULE Spec2Model ----
(***************************************************************************)
(* A model of epubtrans: the Anthropic translation adapter (singleton,     *)
(* mutex, result cache, retry loop, usage metadata), the preview server's  *)
(* update-translation and ai-translate handlers, and the upgrade command.  *)
(*                                                                         *)
(* Strings are sequences of one-character strings so that concatenation    *)
(* (prompt+content, the "%s:%s:%s" cache key) is computed as the code      *)
(* computes it.  Durations and instants are in minutes.                    *)
(***************************************************************************)
EXTENDS Integers, Sequences, FiniteSets, TLC

\* ----------------------------------------------------------------- bounds
NumWorkers == 2      \* concurrent callers of Translate
MaxCalls == 2        \* Translate calls started in one run of the process
MaxTime == 16        \* the clock stops here
TickStep == 16       \* minutes the clock advances in one step
NumHandlers == 2     \* concurrent update-translation requests
MaxRequests == 2     \* update-translation requests handled in one run

\* ------------------------------------------------------ program constants
maxRetries == 3
DefaultCacheTTL == 15
MaxPromptExamples == 5
ExampleLen == 100

Workers == 1..NumWorkers
NoWorker == 0
Nil == "nil"                    \* a nil error
NilPtr == [nil |-> TRUE]        \* a nil *Config or *Anthropic
NoFile == [exists |-> FALSE]    \* the metadata file is not there

\* ----------------------------------------------------------------- inputs
\* (prompt, content, source, target, bookName) of a Translate call: one with
\* no instructions, and two whose prompt+content is the same text
Request(p, c) == [prompt |-> p, content |-> c, source |-> <<"e">>,
                  target |-> <<"v">>, bookName |-> "book1"]
Requests == {Request(<<>>, <<"c">>), Request(<<"a">>, <<"b", "c">>),
             Request(<<"a", "b">>, <<"c">>)}
NoRequest == [prompt |-> <<>>, content |-> <<>>, source |-> <<>>,
              target |-> <<>>, bookName |-> ""]

\* what a caller can hand to GetAnthropicTranslator: nil, or a Config
CallerConfigs == {NilPtr} \cup [APIKey: {"", "k"}, Model: {"sonnet"}, CacheTTL: {0, 5}]
\* the value of ANTHROPIC_KEY in the environment
EnvKeys == {"", "k"}
\* the Config translateWithAI builds: the key from the environment, no CacheTTL
ServeConfig(envKey) == [APIKey |-> envKey, Model |-> "sonnet", CacheTTL |-> 0]

\* what one CreateMessages call can come back with
Responses == {[text |-> "T1", input |-> 2, output |-> 1],
              [text |-> "T2", input |-> 2, output |-> 1]}
NoResponse == [text |-> "", input |-> 0, output |-> 0]
Outcomes == {"ok", "empty", "ratelimit", "other"}

VARIABLES
    once,        \* anthropicOnce has run
    anthropic,   \* _anthropic: NilPtr or the instance's config
    suppliedTTL, \* ghost: the CacheTTL the first caller handed in
    lastModel,   \* ghost: the Model of the Config the latest caller handed in
    mu,          \* Anthropic.mu: NoWorker or the holder
    cache,       \* Anthropic.cache: key -> [val, exp, ttl, by]
    metadata,    \* Anthropic.metadata
    metaFile,    \* unpackage/translator_metadata.json: NoFile or a record
    now,         \* the clock
    pc,          \* where each worker is in translateWithAI / Translate
    req,         \* the arguments of each worker's Translate call
    cancelled,   \* each worker's ctx is done
    retries,     \* createMessageWithRetry's loop variable
    resp,        \* the response a worker holds
    err,         \* createMessageWithRetry's err: the error of the latest attempt
    tmpCalls,    \* the TotalCalls value read by TotalCalls++
    outs,        \* ghost: outcomes of the backend attempts of the call
    waits,       \* ghost: the backoff sleeps of the call that ran to their end, in seconds
    ret,         \* ghost: the most recent return (value, error, attempt outcomes,
                 \* the error the returned one wraps, the call's bookName)
    started,     \* ghost: Translate calls started
    okCount,     \* ghost: calls that stored a backend translation
    baseCalls    \* ghost: TotalCalls as loaded at start

tvars == <<once, anthropic, suppliedTTL, lastModel, mu, cache, metadata, metaFile, now,
           pc, req, cancelled, retries, resp, err, tmpCalls, outs, waits, ret,
           started, okCount, baseCalls>>

\* the preview server's update-translation handler
VARIABLES
    disk,        \* the chapter file: its serialized elements, in order
    outside,     \* a file of the machine that is not in the served book
    hpc,         \* where each handler is
    hpath,       \* filePath: the path each handler opened
    hreq,        \* the TranslateRequest each handler parsed
    hout,        \* the html each handler is writing back
    hoff,        \* how much of it each handler has written
    hread,       \* ghost: the file content each handler read
    answer,      \* ghost: the most recent response (its number, status, request)
    crashed      \* the process was killed

svars == <<disk, outside, hpc, hpath, hreq, hout, hoff, hread, answer, crashed>>

\* the upgrade command
VARIABLES
    upc,         \* where runSelfUpgrade is
    latest,      \* info.Latest: the version of the latest release
    response,    \* the line read from the terminal
    tmpFile,     \* the downloaded asset
    expected,    \* the checksum file's entry for the asset
    extracted,   \* the file "epubtrans" in the working directory
    exe,         \* the file at os.Executable()
    bak,         \* the file at executable + ".bak"
    calls,       \* ghost: the steps of the upgrade that were entered, in order
    uerr         \* the error runSelfUpgrade returned

uvars == <<upc, latest, response, tmpFile, expected, extracted, exe, bak, calls, uerr>>

vars == <<tvars, svars, uvars>>

\* ------------------------------------------------------------ pure helpers
Min(a, b) == IF a < b THEN a ELSE b

Take(s, n) == SubSeq(s, 1, Min(n, Len(s)))

\* fmt.Sprintf("%s:%s:%s", content, source, target); sha256 and hex are
\* taken as injective, so the key is the formatted string itself
generateCacheKey(content, source, target) ==
    content \o <<":">> \o source \o <<":">> \o target

\* the key Translate computes for a request
KeyOf_withBook(r) ==
    generateCacheKey(r.prompt \o r.content \o <<r.bookName>>, r.source, r.target)

KeyOf(r) == generateCacheKey(r.prompt \o r.content, r.source, r.target)

CacheKeys == {KeyOf(r) : r \in Requests}

\* the four values the cache is meant to be keyed by
Four(r) == <<r.content, r.prompt, r.source, r.target>>

\* ristretto Get: the entry is there and its expiration has not passed
\* (a ttl of 0 never expires)
CacheGet(c, k, t) == k \in DOMAIN c /\ (c[k].ttl = 0 \/ t <= c[k].exp)

\* ristretto SetWithTTL(key, value, 0, ttl)
CacheSetWithTTL(c, k, v, ttl, t, by) ==
    [x \in DOMAIN c \cup {k} |->
        IF x = k THEN [val |-> v, exp |-> t + ttl, ttl |-> ttl, by |-> by]
        ELSE c[x]]

DefaultMetadata ==
    [TotalCalls |-> 0, LastUsed |-> 0, ModelUsage |-> [m \in {} |-> 0],
     PromptExamples |-> <<>>, TokenUsage |-> 0, TokenUsageList |-> <<>>]

\* json.MarshalIndent(a.metadata): TokenUsage is an atomic.Uint64, which has
\* no exported field, so the file carries every field but its value
FileOf(md) ==
    [TotalCalls |-> md.TotalCalls, LastUsed |-> md.LastUsed,
     ModelUsage |-> md.ModelUsage, PromptExamples |-> md.PromptExamples,
     TokenUsageList |-> md.TokenUsageList]

\* a file an earlier run of the program wrote after two calls
EarlierFile ==
    [TotalCalls |-> 2, LastUsed |-> 0, ModelUsage |-> [m \in {"sonnet"} |-> 2],
     PromptExamples |-> << <<"c">>, <<"c">> >>,
     TokenUsageList |-> << [input |-> 1, output |-> 1], [input |-> 1, output |-> 1] >>]

\* a file after five calls
FullFile ==
    [TotalCalls |-> 5, LastUsed |-> 0, ModelUsage |-> [m \in {"sonnet"} |-> 5],
     PromptExamples |-> [i \in 1..5 |-> <<"c">>],
     TokenUsageList |-> [i \in 1..5 |-> [input |-> 1, output |-> 1]]]

\* a file os.ReadFile cannot read
UnreadableFile == [exists |-> TRUE, readable |-> FALSE]

\* a file that is not JSON, such as what an interrupted write leaves
TruncatedFile == [corrupt |-> "syntax"]

\* a JSON object with a field of the wrong type:
\* {"total_calls": 7, "model_usage": "x"}
MistypedFile == [corrupt |-> "type", TotalCalls |-> 7]

\* loadMetadata: a file that cannot be read leaves the defaults;
\* json.Unmarshal rejects invalid JSON before it stores anything, skips a
\* field whose value has the wrong type and stores the others, and fills the
\* fields a well-formed file carries (map entries are merged into the map)
loadMetadata(file, md) ==
    IF file = NoFile \/ file = UnreadableFile THEN md
    ELSE IF "corrupt" \in DOMAIN file
    THEN (IF file.corrupt = "syntax" THEN md
          ELSE [md EXCEPT !.TotalCalls = file.TotalCalls])
    ELSE [TotalCalls |-> file.TotalCalls, LastUsed |-> file.LastUsed,
          ModelUsage |-> [m \in DOMAIN md.ModelUsage \cup DOMAIN file.ModelUsage |->
                             IF m \in DOMAIN file.ModelUsage THEN file.ModelUsage[m]
                             ELSE md.ModelUsage[m]],
          PromptExamples |-> file.PromptExamples,
          TokenUsage |-> md.TokenUsage,
          TokenUsageList |-> file.TokenUsageList]

\* the Config GetAnthropicTranslator works on: the caller's, or the default
\* built from the environment when the caller passed nil
EffectiveConfig(cfg, envKey) ==
    IF cfg = NilPtr THEN [APIKey |-> envKey, Model |-> "sonnet", CacheTTL |-> 0]
    ELSE cfg

\* anthropicOnce.Do(f): f runs only if no earlier Do of this Once has run
DoRuns_always(done) == TRUE

DoRuns(done) == ~done

\* cfg.CacheTTL = 15 * time.Minute
CacheTTLOf(cfg) == DefaultCacheTTL

\* sync.Mutex.Lock returns only when nobody holds the mutex
CanLock_none(m) == TRUE

CanLock(m) == m = NoWorker

\* the deferred a.mu.Unlock()
Unlock_leak(m) == m

Unlock(m) == NoWorker

\* the cache is consulted only for a non-empty prompt
UseCache(prompt) == prompt # <<>>

\* for retries := 0; retries < maxRetries; retries++
LoopCond_offByOne(r) == r <= maxRetries

LoopCond(r) == r < maxRetries

\* errors.As(err, &apiErr) && apiErr.IsRateLimitErr()
IsRateLimitErr_any(o) == o \in {"ratelimit", "other"}

IsRateLimitErr(o) == o = "ratelimit"

\* the select of the backoff: a goroutine parked in it is woken by whichever
\* of ctx.Done() and the timer becomes ready first, so the timer case is
\* taken only while the context is not done
TimerCase_always(c) == TRUE

TimerCase(c) == ~c

\* time.Duration(retries+1) * time.Second, in seconds
Backoff_flat(r) == 1

Backoff(r) == r + 1

\* no error held
NoErr == [kind |-> "nil", attempt |-> 0]

\* resp, err = a.client.CreateMessages(ctx, req): err is overwritten by the
\* error of attempt n (errors of different attempts are different values)
AttemptErr_keepFirst(prev, o, n) ==
    IF prev = NoErr THEN [kind |-> o, attempt |-> n] ELSE prev

AttemptErr(prev, o, n) == [kind |-> o, attempt |-> n]

\* return translation, nil: what saveMetadata met does not reach the result
TranslateResult_propagate(translation, saved) ==
    IF saved THEN [val |-> translation, err |-> Nil] ELSE [val |-> "", err |-> "save"]

TranslateResult(translation, saved) == [val |-> translation, err |-> Nil]

\* ghost: the cache entry under k remembers the bookName it was produced for
Tagged(c, k, book) ==
    [x \in DOMAIN c |->
        IF x = k THEN [val |-> c[x].val, exp |-> c[x].exp, ttl |-> c[x].ttl,
                       by |-> c[x].by, book |-> book]
        ELSE c[x]]

\* the metadata update of a successful call (TotalCalls++ writes back the
\* value it read, plus one)
UpdatedMetadata_noTokens(md, read, model, content, usage, t) ==
    [TotalCalls |-> read + 1,
     LastUsed |-> t,
     ModelUsage |-> [m \in DOMAIN md.ModelUsage \cup {model} |->
                        IF m = model
                        THEN (IF m \in DOMAIN md.ModelUsage THEN md.ModelUsage[m] ELSE 0) + 1
                        ELSE md.ModelUsage[m]],
     PromptExamples |-> md.PromptExamples,
     TokenUsage |-> md.TokenUsage,
     TokenUsageList |-> Append(md.TokenUsageList, usage)]

UpdatedMetadata(md, read, model, content, usage, t) ==
    [TotalCalls |-> read + 1,
     LastUsed |-> t,
     ModelUsage |-> [m \in DOMAIN md.ModelUsage \cup {model} |->
                        IF m = model
                        THEN (IF m \in DOMAIN md.ModelUsage THEN md.ModelUsage[m] ELSE 0) + 1
                        ELSE md.ModelUsage[m]],
     PromptExamples |-> IF Len(md.PromptExamples) < MaxPromptExamples
                        THEN Append(md.PromptExamples, Take(content, ExampleLen))
                        ELSE md.PromptExamples,
     TokenUsage |-> md.TokenUsage + usage.input + usage.output,
     TokenUsageList |-> Append(md.TokenUsageList, usage)]

\* --------------------------------------------------- the translator: Init
NoReturn == [val |-> "", err |-> Nil, outs |-> <<>>, cause |-> NoErr, book |-> ""]

TStart ==
    /\ once = FALSE
    /\ anthropic = NilPtr
    /\ suppliedTTL = 0
    /\ lastModel = ""
    /\ mu = NoWorker
    /\ cache = [k \in {} |-> 0]
    /\ metadata = DefaultMetadata
    /\ now = 0
    /\ pc = [w \in Workers |-> "idle"]
    /\ req = [w \in Workers |-> NoRequest]
    /\ cancelled = [w \in Workers |-> FALSE]
    /\ retries = [w \in Workers |-> 0]
    /\ resp = [w \in Workers |-> NoResponse]
    /\ err = [w \in Workers |-> NoErr]
    /\ tmpCalls = [w \in Workers |-> 0]
    /\ outs = [w \in Workers |-> <<>>]
    /\ waits = [w \in Workers |-> <<>>]
    /\ ret = NoReturn
    /\ started = 0
    /\ okCount = 0
    /\ baseCalls = 0

\* the process starts with no metadata file or with one an earlier run wrote
TInit == TStart /\ metaFile \in {NoFile, EarlierFile}

\* a return of Translate: the result and the error go to the caller, the
\* deferred Unlock runs and the locals of the call are gone
Return(w, val, e, os, cause) ==
    /\ pc' = [pc EXCEPT ![w] = "idle"]
    /\ ret' = [val |-> val, err |-> e, outs |-> os, cause |-> cause,
               book |-> req[w].bookName]
    /\ mu' = Unlock(mu)
    /\ req' = [req EXCEPT ![w] = NoRequest]
    /\ cancelled' = [cancelled EXCEPT ![w] = FALSE]
    /\ retries' = [retries EXCEPT ![w] = 0]
    /\ resp' = [resp EXCEPT ![w] = NoResponse]
    /\ err' = [err EXCEPT ![w] = NoErr]
    /\ tmpCalls' = [tmpCalls EXCEPT ![w] = 0]
    /\ outs' = [outs EXCEPT ![w] = <<>>]
    /\ waits' = [waits EXCEPT ![w] = <<>>]

\* translateWithAI up to the entry of Translate: GetAnthropicTranslator
\* (anthropicOnce.Do runs its body for the first caller only), then the call
translateWithAI(w, cfg, envKey, r) ==
    /\ pc[w] = "idle"
    /\ started < MaxCalls
    /\ LET eff == EffectiveConfig(cfg, envKey)
           runs == DoRuns(once)
           initErr == runs /\ eff.APIKey = ""
           inst == IF ~runs THEN anthropic
                   ELSE IF eff.APIKey = "" THEN NilPtr
                   ELSE [eff EXCEPT !.CacheTTL = CacheTTLOf(eff)]
       IN /\ once' = TRUE
          /\ anthropic' = inst
          /\ suppliedTTL' = IF runs THEN eff.CacheTTL ELSE suppliedTTL
          /\ lastModel' = eff.Model
          /\ metadata' = IF runs /\ inst # NilPtr
                         THEN loadMetadata(metaFile, DefaultMetadata)
                         ELSE metadata
          /\ baseCalls' = IF runs /\ inst # NilPtr THEN metadata'.TotalCalls
                          ELSE baseCalls
          /\ IF initErr
             THEN \* "error getting translator"
                  /\ ret' = [NoReturn EXCEPT !.err = "config"]
                  /\ UNCHANGED <<pc, req, started>>
             ELSE IF inst = NilPtr
             THEN \* Translate on a nil *Anthropic
                  /\ pc' = [pc EXCEPT ![w] = "panic"]
                  /\ UNCHANGED <<ret, req, started>>
             ELSE /\ pc' = [pc EXCEPT ![w] = "lock"]
                  /\ req' = [req EXCEPT ![w] = r]
                  /\ started' = started + 1
                  /\ UNCHANGED ret
    /\ UNCHANGED <<mu, cache, metaFile, now, cancelled, retries, resp, err,
                   tmpCalls, outs, waits, okCount>>
    /\ UNCHANGED <<svars, uvars>>

\* Translate from a.mu.Lock() to the first CreateMessages call, or to the
\* return of a cached translation
Lock(w) ==
    /\ pc[w] = "lock"
    /\ CanLock(mu)
    /\ LET cacheKey == KeyOf(req[w])
       IN IF UseCache(req[w].prompt) /\ CacheGet(cache, cacheKey, now)
          THEN Return(w, cache[cacheKey].val, Nil, outs[w], NoErr)
          ELSE IF LoopCond(0)
          THEN /\ pc' = [pc EXCEPT ![w] = "inflight"]
               /\ mu' = w
               /\ UNCHANGED <<ret, req, cancelled, retries, resp, err, tmpCalls,
                              outs, waits>>
          ELSE Return(w, "", "maxretries", outs[w], err[w])
    /\ UNCHANGED <<once, anthropic, suppliedTTL, lastModel, cache, metadata, metaFile, now,
                   started, okCount, baseCalls>>
    /\ UNCHANGED <<svars, uvars>>

\* a.client.CreateMessages returns; on a translation the cache entry is
\* written and TotalCalls is read
Respond(w, o, rsp) ==
    /\ pc[w] = "inflight"
    /\ IF o = "ok"
       THEN /\ resp' = [resp EXCEPT ![w] = rsp]
            /\ err' = [err EXCEPT ![w] = NoErr]
            /\ cache' = Tagged(CacheSetWithTTL(cache, KeyOf(req[w]), rsp.text,
                                               anthropic.CacheTTL, now, Four(req[w])),
                               KeyOf(req[w]), req[w].bookName)
            /\ tmpCalls' = [tmpCalls EXCEPT ![w] = metadata.TotalCalls]
            /\ pc' = [pc EXCEPT ![w] = "update"]
            /\ outs' = [outs EXCEPT ![w] = Append(@, o)]
            /\ UNCHANGED <<mu, ret, req, cancelled, retries, waits>>
       ELSE IF o = "empty"
       THEN /\ Return(w, "", "empty", Append(outs[w], o), NoErr)
            /\ UNCHANGED cache
       ELSE IF IsRateLimitErr(o)
       THEN /\ pc' = [pc EXCEPT ![w] = "backoff"]
            /\ err' = [err EXCEPT ![w] = AttemptErr(@, o, retries[w] + 1)]
            /\ outs' = [outs EXCEPT ![w] = Append(@, o)]
            /\ UNCHANGED <<mu, ret, req, cancelled, retries, resp, cache, tmpCalls,
                           waits>>
       ELSE /\ Return(w, "", "backend", Append(outs[w], o),
                      AttemptErr(err[w], o, retries[w] + 1))
            /\ UNCHANGED cache
    /\ UNCHANGED <<once, anthropic, suppliedTTL, lastModel, metadata, metaFile, now, started,
                   okCount, baseCalls>>
    /\ UNCHANGED <<svars, uvars>>

\* case <-time.After(...): continue, into the next attempt or out of the loop
BackoffElapsed(w) ==
    /\ pc[w] = "backoff"
    /\ TimerCase(cancelled[w])
    /\ IF LoopCond(retries[w] + 1)
       THEN /\ retries' = [retries EXCEPT ![w] = @ + 1]
            /\ waits' = [waits EXCEPT ![w] = Append(@, Backoff(retries[w]))]
            /\ pc' = [pc EXCEPT ![w] = "inflight"]
            /\ UNCHANGED <<mu, ret, req, cancelled, resp, err, tmpCalls, outs>>
       ELSE /\ Return(w, "", "maxretries", outs[w], err[w])
    /\ UNCHANGED <<once, anthropic, suppliedTTL, lastModel, cache, metadata, metaFile, now,
                   started, okCount, baseCalls>>
    /\ UNCHANGED <<svars, uvars>>

\* case <-ctx.Done(): return nil, ctx.Err()
BackoffCancelled(w) ==
    /\ pc[w] = "backoff"
    /\ cancelled[w]
    /\ Return(w, "", "ctx", outs[w], NoErr)
    /\ UNCHANGED <<once, anthropic, suppliedTTL, lastModel, cache, metadata, metaFile, now,
                   started, okCount, baseCalls>>
    /\ UNCHANGED <<svars, uvars>>

\* the metadata update, saveMetadata (which may fail and only logs) and the
\* return of the translation
Update(w, saved) ==
    /\ pc[w] = "update"
    /\ metadata' = UpdatedMetadata(metadata, tmpCalls[w], anthropic.Model,
                                   req[w].content,
                                   [input |-> resp[w].input, output |-> resp[w].output],
                                   now)
    /\ metaFile' = IF saved THEN FileOf(metadata') ELSE metaFile
    /\ okCount' = okCount + 1
    /\ LET res == TranslateResult(resp[w].text, saved)
       IN Return(w, res.val, res.err, outs[w], NoErr)
    /\ UNCHANGED <<once, anthropic, suppliedTTL, lastModel, cache, now, started, baseCalls>>
    /\ UNCHANGED <<svars, uvars>>

\* the caller cancels the context of a call in progress
Cancel(w) ==
    /\ pc[w] \in {"inflight", "backoff"}
    /\ ~cancelled[w]
    /\ cancelled' = [cancelled EXCEPT ![w] = TRUE]
    /\ UNCHANGED <<once, anthropic, suppliedTTL, lastModel, mu, cache, metadata, metaFile,
                   now, pc, req, retries, resp, err, tmpCalls, outs, waits, ret,
                   started, okCount, baseCalls>>
    /\ UNCHANGED <<svars, uvars>>

\* time passes (the clock is read for cache expiry and LastUsed only, so it
\* is advanced once the cache holds an entry)
Tick ==
    /\ now + TickStep <= MaxTime
    /\ DOMAIN cache # {}
    /\ now' = now + TickStep
    /\ UNCHANGED <<once, anthropic, suppliedTTL, lastModel, mu, cache, metadata, metaFile,
                   pc, req, cancelled, retries, resp, err, tmpCalls, outs, waits,
                   ret, started, okCount, baseCalls>>
    /\ UNCHANGED <<svars, uvars>>

\* ristretto drops an entry that Get would still return (cost pressure)
Evict(k) ==
    /\ CacheGet(cache, k, now)
    /\ cache' = [x \in DOMAIN cache \ {k} |-> cache[x]]
    /\ UNCHANGED <<once, anthropic, suppliedTTL, lastModel, mu, metadata, metaFile, now,
                   pc, req, cancelled, retries, resp, err, tmpCalls, outs, waits,
                   ret, started, okCount, baseCalls>>
    /\ UNCHANGED <<svars, uvars>>

TNext ==
    \/ \E w \in Workers, envKey \in EnvKeys, r \in Requests :
           translateWithAI(w, ServeConfig(envKey), envKey, r)
    \/ \E w \in Workers : Lock(w)
    \/ \E w \in Workers, o \in Outcomes, rsp \in Responses : Respond(w, o, rsp)
    \/ \E w \in Workers : BackoffElapsed(w)
    \/ \E w \in Workers : BackoffCancelled(w)
    \/ \E w \in Workers, saved \in BOOLEAN : Update(w, saved)
    \/ \E w \in Workers : Cancel(w)
    \/ Tick
    \/ \E k \in CacheKeys : Evict(k)

\* ------------------------------------------- the update-translation handler
Handlers == 1..NumHandlers

\* the files a request can name under contentDirPath
ChapterPath == "ch1.xhtml"
FilePaths == {ChapterPath, "missing.xhtml"}

\* contentDirPath: the directory of the package document in the unpacked book
contentDirPath == <<"book", "OEBPS">>

\* a path as its segments
Segments(p) ==
    CASE p = "ch1.xhtml" -> <<"ch1.xhtml">>
      [] p = "missing.xhtml" -> <<"missing.xhtml">>
      [] p = "./ch1.xhtml" -> <<".", "ch1.xhtml">>
      [] p = "../../other/ch1.xhtml" -> <<"..", "..", "other", "ch1.xhtml">>
      [] OTHER -> <<p>>

\* path.Clean of a rooted path: "." is dropped, ".." drops the segment before
\* it (and is dropped itself at the root)
RECURSIVE Clean(_, _)
Clean(done, rest) ==
    IF rest = <<>> THEN done
    ELSE IF Head(rest) = "." THEN Clean(done, Tail(rest))
    ELSE IF Head(rest) = ".."
    THEN Clean(IF done = <<>> THEN <<>> ELSE SubSeq(done, 1, Len(done) - 1), Tail(rest))
    ELSE Clean(Append(done, Head(rest)), Tail(rest))

\* path.Join(contentDirPath, req.FilePath)
Join(dir, p) == Clean(<<>>, dir \o Segments(p))

\* the two files of the machine: the chapter of the served book, and a chapter
\* of another book
ChapterFile == contentDirPath \o <<"ch1.xhtml">>
OtherFile == <<"other", "ch1.xhtml">>
OtherChapter == << [kind |-> "translation", id |-> "1", raw |-> "theirs"] >>

\* os.ReadFile succeeds
Exists(path) == path \in {ChapterFile, OtherFile}

\* the content of the file at path
FileAt(path) == IF path = OtherFile THEN outside ELSE disk

\* the file at path gets the content
WriteTo(path, content) ==
    IF path = OtherFile THEN outside' = content /\ UNCHANGED disk
    ELSE disk' = content /\ UNCHANGED outside
TranslationIDs == {"1", "2", "9"}
TranslationContents == {"new", "y<br>"}
TranslateRequests == [FilePath: FilePaths, TranslationID: TranslationIDs,
                      TranslationContent: TranslationContents]
NoTranslateRequest == [FilePath |-> "", TranslationID |-> "", TranslationContent |-> ""]

\* html.Parse of an element's inner html: a void element is one node however
\* it was written
ParseHtml(raw) ==
    CASE raw = "x<br>" -> <<"x", "br">>
      [] raw = "x<br/>" -> <<"x", "br">>
      [] raw = "y<br>" -> <<"y", "br">>
      [] raw = "y<br/>" -> <<"y", "br">>
      [] OTHER -> <<raw>>

\* html.Render of the nodes: a void element is written <br/>
RenderHtml(nodes) ==
    IF Len(nodes) = 2 THEN (IF nodes[1] = "x" THEN "x<br/>" ELSE "y<br/>")
    ELSE nodes[1]

\* goquery.NewDocumentFromReader: the marked elements of the file, parsed
ParseDocument(file) ==
    [i \in 1..Len(file) |->
        [kind |-> file[i].kind, id |-> file[i].id, nodes |-> ParseHtml(file[i].raw)]]

\* doc.Html()
RenderDocument(doc) ==
    [i \in 1..Len(doc) |->
        [kind |-> doc[i].kind, id |-> doc[i].id, raw |-> RenderHtml(doc[i].nodes)]]

\* id == req.TranslationID
IdMatches_any(id, t) == TRUE

IdMatches(id, t) == id = t

\* the element is in the selection doc.Find("[data-translation-id]") and
\* carries the requested id
Selected(e, t) == e.kind = "translation" /\ IdMatches(e.id, t)

\* the Each loop: s.SetHtml(req.TranslationContent) on every selected element
SetHtmlEach(doc, t, content) ==
    [i \in 1..Len(doc) |->
        IF Selected(doc[i], t) THEN [doc[i] EXCEPT !.nodes = ParseHtml(content)]
        ELSE doc[i]]

\* the updated flag after the loop
Updated(doc, t) == \E i \in 1..Len(doc) : Selected(doc[i], t)

\* the zero bytes a write past the end of a file leaves before it
Hole == [kind |-> "hole", id |-> "", raw |-> ""]

\* a write of data at offset off of a file holding old
WriteAt(old, data, off) ==
    [i \in 1..(IF Len(old) > off + Len(data) THEN Len(old) ELSE off + Len(data)) |->
        IF i > off /\ i <= off + Len(data) THEN data[i - off]
        ELSE IF i <= Len(old) THEN old[i]
        ELSE Hole]

\* the chapter as the marker left it: a source element and two placeholders
MarkedChapter ==
    << [kind |-> "content", id |-> "1", raw |-> "x<br>"],
       [kind |-> "translation", id |-> "1", raw |-> "old"],
       [kind |-> "translation", id |-> "2", raw |-> "x<br>"] >>

NoAnswer == [n |-> 0, h |-> 0, status |-> 0, req |-> NoTranslateRequest]

SStart ==
    /\ hpc = [h \in Handlers |-> "idle"]
    /\ hpath = [h \in Handlers |-> <<>>]
    /\ hreq = [h \in Handlers |-> NoTranslateRequest]
    /\ hout = [h \in Handlers |-> <<>>]
    /\ hoff = [h \in Handlers |-> 0]
    /\ hread = [h \in Handlers |-> <<>>]
    /\ answer = NoAnswer
    /\ crashed = FALSE

SInit == SStart /\ disk = MarkedChapter /\ outside = OtherChapter

\* the handler answers the request and is done with it
Answer(h, status, r) ==
    /\ answer' = [n |-> answer.n + 1, h |-> h, status |-> status, req |-> r]
    /\ hpc' = [hpc EXCEPT ![h] = "idle"]
    /\ hpath' = [hpath EXCEPT ![h] = <<>>]
    /\ hreq' = [hreq EXCEPT ![h] = NoTranslateRequest]
    /\ hout' = [hout EXCEPT ![h] = <<>>]
    /\ hoff' = [hoff EXCEPT ![h] = 0]
    /\ hread' = [hread EXCEPT ![h] = <<>>]

\* PATCH /api/update-translation from the body parser to os.WriteFile:
\* os.ReadFile, the parse, the Each loop, the 404 and doc.Html()
UpdateTranslation(h, r) ==
    /\ ~crashed
    /\ hpc[h] = "idle"
    /\ answer.n + Cardinality({g \in Handlers : hpc[g] # "idle"}) < MaxRequests
    /\ LET filePath == Join(contentDirPath, r.FilePath)
       IN IF ~Exists(filePath)
          THEN \* "Failed to read file"
               Answer(h, 500, r)
          ELSE LET doc == ParseDocument(FileAt(filePath))
               IN IF ~Updated(doc, r.TranslationID)
                  THEN Answer(h, 404, r)
                  ELSE
                    /\ hreq' = [hreq EXCEPT ![h] = r]
                    /\ hpath' = [hpath EXCEPT ![h] = filePath]
                    /\ hread' = [hread EXCEPT ![h] = FileAt(filePath)]
                    /\ hpc' = [hpc EXCEPT ![h] = "write"]
                    /\ hout' = [hout EXCEPT ![h] =
                           RenderDocument(SetHtmlEach(doc, r.TranslationID,
                                                      r.TranslationContent))]
                    /\ UNCHANGED <<hoff, answer>>
    /\ UNCHANGED <<disk, outside, crashed>>
    /\ UNCHANGED <<tvars, uvars>>

\* os.WriteFile opens the file with O_TRUNC, or fails to
WriteOpen(h, ok) ==
    /\ ~crashed
    /\ hpc[h] = "write"
    /\ IF ok
       THEN /\ WriteTo(hpath[h], <<>>)
            /\ hpc' = [hpc EXCEPT ![h] = "writing"]
            /\ UNCHANGED <<hpath, hreq, hout, hoff, hread, answer>>
       ELSE \* "Failed to write file"
            /\ Answer(h, 500, hreq[h])
            /\ UNCHANGED <<disk, outside>>
    /\ UNCHANGED crashed
    /\ UNCHANGED <<tvars, uvars>>

\* the write reaches the disk piece by piece; after the last piece the
\* handler answers 200
WriteData(h) ==
    /\ ~crashed
    /\ hpc[h] = "writing"
    /\ WriteTo(hpath[h], WriteAt(FileAt(hpath[h]), <<hout[h][hoff[h] + 1]>>, hoff[h]))
    /\ IF hoff[h] + 1 = Len(hout[h])
       THEN Answer(h, 200, hreq[h])
       ELSE /\ hoff' = [hoff EXCEPT ![h] = @ + 1]
            /\ UNCHANGED <<hpc, hpath, hreq, hout, hread, answer>>
    /\ UNCHANGED crashed
    /\ UNCHANGED <<tvars, uvars>>

\* the write fails part-way (disk full, I/O error): "Failed to write file"
WriteFails(h) ==
    /\ ~crashed
    /\ hpc[h] = "writing"
    /\ Answer(h, 500, hreq[h])
    /\ UNCHANGED <<disk, outside, crashed>>
    /\ UNCHANGED <<tvars, uvars>>

\* the process is killed, or the machine loses power
Crash ==
    /\ ~crashed
    /\ crashed' = TRUE
    /\ UNCHANGED <<disk, outside, hpc, hpath, hreq, hout, hoff, hread, answer>>
    /\ UNCHANGED <<tvars, uvars>>

SNext ==
    \/ \E h \in Handlers, r \in TranslateRequests : UpdateTranslation(h, r)
    \/ \E h \in Handlers, ok \in BOOLEAN : WriteOpen(h, ok)
    \/ \E h \in Handlers : WriteData(h)
    \/ \E h \in Handlers : WriteFails(h)
    \/ Crash

\* ------------------------------------------------------ the upgrade command
\* Root.Version of the running binary, and the versions a release can carry
CurrentVersion == 2
Versions == 1..4

\* info.Latest.GreaterThan(info.Current)
GreaterThan_orEqual(l, c) == l >= c

GreaterThan(l, c) == l > c

\* the lines the user can type at the prompt
TerminalLines == {"y", "Y", " y ", "n", "", "yes"}

\* strings.ToLower(strings.TrimSpace(response))
TrimLower(line) ==
    CASE line = "Y" -> "y"
      [] line = " y " -> "y"
      [] OTHER -> line

\* getUserConfirmation's result
Proceed(line) == TrimLower(line) = "y"

\* the archives the asset URL can deliver, and hex(sha256(archive))
Assets == {"new", "damaged"}
NoAsset == "none"
Sha(archive) == <<"sha256", archive>>

\* the checksum file's entry for the asset name: none, or a checksum
NoEntry == <<>>
Entries == {NoEntry, Sha("new")}

\* a file that holds a binary: its bytes and whether it is executable
NoBinary == [data |-> "none", exec |-> FALSE]
OldBinary == [data |-> "old", exec |-> TRUE]
BinaryOf(archive) == [data |-> archive, exec |-> TRUE]

\* how a copy of a file onto a path can end: complete; failed before the
\* destination was created (Stat, Open, Create); failed in io.Copy after
\* os.Create truncated the destination; failed in the final Chmod
CopyOutcomes == {"ok", "nowrite", "partial", "chmod"}

\* the destination after copyFile(src, dst) ended that way
CopyResult(dst, src, outcome) ==
    CASE outcome = "ok" -> src
      [] outcome = "nowrite" -> dst
      [] outcome = "partial" -> [data |-> "partial", exec |-> dst.exec]
      [] outcome = "chmod" -> [data |-> src.data, exec |-> dst.exec]

UStart ==
    /\ upc = "start"
    /\ latest = 0
    /\ response = ""
    /\ tmpFile = NoAsset
    /\ expected = NoEntry
    /\ extracted = NoBinary
    /\ exe = OldBinary
    /\ bak = NoBinary
    /\ calls = <<>>
    /\ uerr = Nil

\* runSelfUpgrade returns
UReturn(e) ==
    /\ upc' = "done"
    /\ uerr' = e

\* checkVersion and the comparison of the two versions
CheckVersion(l, ok) ==
    /\ upc = "start"
    /\ calls' = Append(calls, "checkVersion")
    /\ IF ~ok
       THEN \* "failed to check for updates", "invalid latest version"
            UReturn("version") /\ UNCHANGED latest
       ELSE /\ latest' = l
            /\ IF ~GreaterThan(l, CurrentVersion)
               THEN \* "You are already running the latest version."
                    UReturn(Nil)
               ELSE upc' = "confirm" /\ UNCHANGED uerr
    /\ UNCHANGED <<response, tmpFile, expected, extracted, exe, bak>>
    /\ UNCHANGED <<tvars, svars>>

\* getUserConfirmation and the test of proceed
GetUserConfirmation(line, ok) ==
    /\ upc = "confirm"
    /\ calls' = Append(calls, "getUserConfirmation")
    /\ IF ~ok
       THEN \* "failed to read user input"
            UReturn("input") /\ UNCHANGED response
       ELSE /\ response' = line
            /\ IF ~Proceed(line)
               THEN \* "Upgrade cancelled."
                    UReturn(Nil)
               ELSE upc' = "download" /\ UNCHANGED uerr
    /\ UNCHANGED <<latest, tmpFile, expected, extracted, exe, bak>>
    /\ UNCHANGED <<tvars, svars>>

\* downloadAndInstall up to the return of downloadFile (the temporary file
\* is removed when downloadAndInstall returns; tmpFile keeps what it held)
DownloadFile(found, ok, archive) ==
    /\ upc = "download"
    /\ IF ~found
       THEN \* "no suitable asset found"
            UReturn("noasset") /\ UNCHANGED <<tmpFile, calls>>
       ELSE /\ calls' = Append(calls, "downloadFile")
            /\ IF ~ok
               THEN UReturn("download") /\ UNCHANGED tmpFile
               ELSE /\ tmpFile' = archive
                    /\ upc' = "verify"
                    /\ UNCHANGED uerr
    /\ UNCHANGED <<latest, response, expected, extracted, exe, bak>>
    /\ UNCHANGED <<tvars, svars>>

\* verifyChecksum: the checksum file is fetched and parsed, the asset's entry
\* is looked up, the file is hashed and the two are compared
VerifyChecksum(fetched, entry, opened) ==
    /\ upc = "verify"
    /\ calls' = Append(calls, "verifyChecksum")
    /\ IF ~fetched
       THEN \* "failed to download checksum file", "failed to read checksum file"
            UReturn("checksumfile") /\ UNCHANGED expected
       ELSE /\ expected' = entry
            /\ IF entry = NoEntry
               THEN UReturn("nochecksum")
               ELSE IF ~opened
               THEN \* "failed to open downloaded file", "failed to calculate checksum"
                    UReturn("hash")
               ELSE IF Sha(tmpFile) # entry
               THEN UReturn("mismatch")
               ELSE upc' = "extract" /\ UNCHANGED uerr
    /\ UNCHANGED <<latest, response, tmpFile, extracted, exe, bak>>
    /\ UNCHANGED <<tvars, svars>>

\* extractTarGz: the entry "epubtrans" of the archive is written to the
\* working directory
ExtractTarGz(outcome) ==
    /\ upc = "extract"
    /\ calls' = Append(calls, "extractTarGz")
    /\ extracted' = CopyResult(extracted, BinaryOf(tmpFile), outcome)
    /\ IF outcome # "ok"
       THEN UReturn("extract")
       ELSE upc' = "backup" /\ UNCHANGED uerr
    /\ UNCHANGED <<latest, response, tmpFile, expected, exe, bak>>
    /\ UNCHANGED <<tvars, svars>>

\* installBinary up to the backup: copyFile(executable, backupPath)
Backup(outcome) ==
    /\ upc = "backup"
    /\ calls' = Append(calls, "installBinary")
    /\ bak' = CopyResult(bak, exe, outcome)
    /\ IF outcome # "ok"
       THEN \* "failed to create backup"
            UReturn("backup")
       ELSE upc' = "install" /\ UNCHANGED uerr
    /\ UNCHANGED <<latest, response, tmpFile, expected, extracted, exe>>
    /\ UNCHANGED <<tvars, svars>>

\* copyFile("epubtrans", executable); on success the extracted binary and
\* the backup are removed
Install(outcome) ==
    /\ upc = "install"
    /\ exe' = CopyResult(exe, extracted, outcome)
    /\ IF outcome = "ok"
       THEN /\ extracted' = NoBinary
            /\ bak' = NoBinary
            /\ UReturn(Nil)
       ELSE /\ upc' = "restore"
            /\ UNCHANGED <<extracted, bak, uerr>>
    /\ UNCHANGED <<latest, response, tmpFile, expected, calls>>
    /\ UNCHANGED <<tvars, svars>>

\* the failure path: copyFile(backupPath, executable) with its result
\* dropped, os.Remove(backupPath), "failed to install new version"
Restore(outcome) ==
    /\ upc = "restore"
    /\ exe' = CopyResult(exe, bak, outcome)
    /\ bak' = NoBinary
    /\ UReturn("install")
    /\ UNCHANGED <<latest, response, tmpFile, expected, extracted, calls>>
    /\ UNCHANGED <<tvars, svars>>

UNext ==
    \/ \E l \in Versions, ok \in BOOLEAN : CheckVersion(l, ok)
    \/ \E line \in TerminalLines, ok \in BOOLEAN : GetUserConfirmation(line, ok)
    \/ \E found \in BOOLEAN, ok \in BOOLEAN, archive \in Assets :
           DownloadFile(found, ok, archive)
    \/ \E fetched \in BOOLEAN, entry \in Entries, opened \in BOOLEAN :
           VerifyChecksum(fetched, entry, opened)
    \/ \E outcome \in CopyOutcomes : ExtractTarGz(outcome)
    \/ \E outcome \in CopyOutcomes : Backup(outcome)
    \/ \E outcome \in CopyOutcomes : Install(outcome)
    \/ \E outcome \in CopyOutcomes : Restore(outcome)

\* ------------------------------------------------------- specifications
Init == TInit /\ SInit /\ UStart

\* the translator, with the preview handler idle
Next == TNext

Spec == Init /\ [][Next]_vars

\* the update-translation handler, with the translator idle
ServeNext == SNext

SpecServe == Init /\ [][ServeNext]_vars

\* callers that hand GetAnthropicTranslator any Config, with contexts that are
\* never cancelled (translateWithAI passes context.Background()) and a cache
\* under no pressure
ConfigNext ==
    \/ \E w \in Workers, cfg \in CallerConfigs, envKey \in EnvKeys, r \in Requests :
           translateWithAI(w, cfg, envKey, r)
    \/ \E w \in Workers : Lock(w)
    \/ \E w \in Workers, o \in Outcomes, rsp \in Responses : Respond(w, o, rsp)
    \/ \E w \in Workers : BackoffElapsed(w)
    \/ \E w \in Workers, saved \in BOOLEAN : Update(w, saved)
    \/ Tick

SpecConfig == Init /\ [][ConfigNext]_vars

\* ------------------------------------------ POST /api/ai-translate
\* the chapter before any translation: the placeholders are empty
FreshChapter ==
    << [kind |-> "content", id |-> "1", raw |-> "x<br>"],
       [kind |-> "translation", id |-> "1", raw |-> ""],
       [kind |-> "translation", id |-> "2", raw |-> ""] >>

AIInstructions == {<<>>, <<"a">>}
AIRequests ==
    [FilePath: {ChapterPath}, TranslationID: {"1", "9"}, ContentID: {"1"},
     Instructions: AIInstructions]
    \cup {[FilePath |-> ChapterPath, TranslationID |-> "1", ContentID |-> "9",
           Instructions |-> <<>>],
          [FilePath |-> "missing.xhtml", TranslationID |-> "1", ContentID |-> "1",
           Instructions |-> <<>>]}

\* the Each loops of the handler: the variable ends as s.Html() of the last
\* element of the kind that carries the id, or stays ""
HtmlOfLast(doc, kind, id) ==
    LET idx == {i \in 1..Len(doc) : doc[i].kind = kind /\ doc[i].id = id}
    IN IF idx = {} THEN ""
       ELSE RenderHtml(doc[CHOOSE i \in idx : \A j \in idx : j <= i].nodes)

\* instructment: fmt.Sprintf("Previous translation:\n\n%s\n\n%s", current,
\* instructions) when the current translation is not empty
Instructment_plain(current, instructions) == instructions

Instructment(current, instructions) ==
    IF current # ""
    THEN <<"Previous translation:\n\n", current, "\n\n">> \o instructions
    ELSE instructions

\* the handler up to the entry of Translate; a failed read or an unknown
\* content id is answered without a call
AITranslate(w, envKey, a) ==
    LET filePath == Join(contentDirPath, a.FilePath)
        doc == ParseDocument(FileAt(filePath))
        originalContent == HtmlOfLast(doc, "content", a.ContentID)
        currentTranslatedContent == HtmlOfLast(doc, "translation", a.TranslationID)
    IN IF ~Exists(filePath) \/ originalContent = ""
       THEN /\ pc[w] = "idle"
            /\ ret' = [NoReturn EXCEPT
                          !.err = IF ~Exists(filePath) THEN "read" ELSE "notfound"]
            /\ UNCHANGED <<once, anthropic, suppliedTTL, lastModel, mu, cache, metadata, metaFile,
                           now, pc, req, cancelled, retries, resp, err, tmpCalls, outs,
                           waits, started, okCount, baseCalls>>
            /\ UNCHANGED <<svars, uvars>>
       ELSE translateWithAI(w, ServeConfig(envKey), envKey,
                            Request(Instructment(currentTranslatedContent, a.Instructions),
                                    <<originalContent>>))

AIInit ==
    /\ TStart /\ metaFile = NoFile /\ UStart
    /\ SStart /\ disk \in {MarkedChapter, FreshChapter} /\ outside = OtherChapter

AINext ==
    \/ \E w \in Workers, envKey \in EnvKeys, a \in AIRequests : AITranslate(w, envKey, a)
    \/ \E w \in Workers : Lock(w)
    \/ \E w \in Workers, o \in Outcomes, rsp \in Responses : Respond(w, o, rsp)
    \/ \E w \in Workers : BackoffElapsed(w)
    \/ \E w \in Workers, saved \in BOOLEAN : Update(w, saved)

SpecAI == AIInit /\ [][AINext]_vars

\* the same text translated for two books
BookRequests ==
    {Request(<<"a">>, <<"b", "c">>),
     [Request(<<"a">>, <<"b", "c">>) EXCEPT !.bookName = "book2"],
     Request(<<"a", "b">>, <<"c">>)}

BooksNext ==
    \/ \E w \in Workers, envKey \in EnvKeys, r \in BookRequests :
           translateWithAI(w, ServeConfig(envKey), envKey, r)
    \/ \E w \in Workers : Lock(w)
    \/ \E w \in Workers, o \in Outcomes, rsp \in Responses : Respond(w, o, rsp)
    \/ \E w \in Workers : BackoffElapsed(w)
    \/ \E w \in Workers, saved \in BOOLEAN : Update(w, saved)
    \/ Tick
    \/ \E k \in CacheKeys : Evict(k)

SpecBooks == Init /\ [][BooksNext]_vars

\* the translator started over any state of the metadata file
MetadataFiles == {NoFile, EarlierFile, FullFile, UnreadableFile, TruncatedFile,
                  MistypedFile}

UsageInit == TStart /\ metaFile \in MetadataFiles /\ SInit /\ UStart

UsageNext ==
    \/ \E w \in Workers, envKey \in EnvKeys, r \in Requests :
           translateWithAI(w, ServeConfig(envKey), envKey, r)
    \/ \E w \in Workers : Lock(w)
    \/ \E w \in Workers, o \in Outcomes, rsp \in Responses : Respond(w, o, rsp)
    \/ \E w \in Workers : BackoffElapsed(w)
    \/ \E w \in Workers, saved \in BOOLEAN : Update(w, saved)

SpecUsage == UsageInit /\ [][UsageNext]_vars

\* requests whose file_path is any path, with no crash
PathRequests ==
    [FilePath: {ChapterPath, "./ch1.xhtml", "../../other/ch1.xhtml"},
     TranslationID: {"1", "9"}, TranslationContent: {"new"}]

PathsNext ==
    \/ \E h \in Handlers, r \in PathRequests : UpdateTranslation(h, r)
    \/ \E h \in Handlers, ok \in BOOLEAN : WriteOpen(h, ok)
    \/ \E h \in Handlers : WriteData(h)
    \/ \E h \in Handlers : WriteFails(h)

SpecPaths == Init /\ [][PathsNext]_vars

\* the translator with callers that cancel, the clock standing still and a
\* cache under no pressure
CancelInit == TStart /\ metaFile = NoFile /\ SInit /\ UStart

CancelNext ==
    \/ \E w \in Workers, envKey \in EnvKeys, r \in Requests :
           translateWithAI(w, ServeConfig(envKey), envKey, r)
    \/ \E w \in Workers : Lock(w)
    \/ \E w \in Workers, o \in Outcomes, rsp \in Responses : Respond(w, o, rsp)
    \/ \E w \in Workers : BackoffElapsed(w)
    \/ \E w \in Workers : BackoffCancelled(w)
    \/ \E w \in Workers, saved \in BOOLEAN : Update(w, saved)
    \/ \E w \in Workers : Cancel(w)

SpecCancel == CancelInit /\ [][CancelNext]_vars

\* the same under fair scheduling: every backend call returns, a timer that
\* was started fires, a runnable goroutine runs, and a goroutine blocked in
\* Lock gets the mutex once it stays free
Fairness ==
    \A w \in Workers :
        /\ WF_vars(Lock(w))
        /\ WF_vars(\E o \in Outcomes, rsp \in Responses : Respond(w, o, rsp))
        /\ WF_vars(BackoffElapsed(w))
        /\ WF_vars(BackoffCancelled(w))
        /\ WF_vars(\E saved \in BOOLEAN : Update(w, saved))

SpecLive == CancelInit /\ [][CancelNext]_vars /\ Fairness

\* callers that hand GetAnthropicTranslator Configs naming different models
ModelConfigs == {NilPtr} \cup [APIKey: {"", "k"}, Model: {"sonnet", "haiku"}, CacheTTL: {0}]

SingletonNext ==
    \/ \E w \in Workers, cfg \in ModelConfigs, envKey \in EnvKeys, r \in Requests :
           translateWithAI(w, cfg, envKey, r)
    \/ \E w \in Workers : Lock(w)
    \/ \E w \in Workers, o \in Outcomes, rsp \in Responses : Respond(w, o, rsp)
    \/ \E w \in Workers : BackoffElapsed(w)
    \/ \E w \in Workers, saved \in BOOLEAN : Update(w, saved)

SpecSingleton == CancelInit /\ [][SingletonNext]_vars

\* the upgrade command alone
UpgradeInit == TStart /\ metaFile = NoFile /\ SInit /\ UStart

SpecUpgrade == UpgradeInit /\ [][UNext]_vars

\* ------------------------------------------------------------------ claims
AllRateLimited(os) == os # <<>> /\ \A i \in DOMAIN os : os[i] = "ratelimit"

\* worker w returns from Translate in this step
Returns(w) == pc[w] \in {"lock", "inflight", "backoff", "update"} /\ pc'[w] = "idle"

InBackend == {"inflight", "backoff"}

\* C1: when every backend attempt of a call is rate-limited and the context is
\* never cancelled, the call makes exactly maxRetries attempts and returns the
\* max-retries error; no call ever makes more than maxRetries attempts.
C1_RetryBound ==
    [][\A w \in Workers :
          /\ Len(outs'[w]) + (IF pc'[w] = "inflight" THEN 1 ELSE 0) <= maxRetries
          /\ (Returns(w) /\ ~cancelled[w] /\ AllRateLimited(ret'.outs))
                => (Len(ret'.outs) = maxRetries /\ ret'.err = "maxretries")]_vars

C1_Witness == ret.err = "maxretries" /\ Len(ret.outs) = maxRetries

\* C2: a call that finds in the cache a live entry written by an earlier call
\* with the same content, instructions, source and target (empty instructions
\* included) returns that entry's translation without calling the backend.
C2_CacheCorrectness ==
    [][\A w \in Workers :
          (/\ pc[w] = "lock" /\ pc'[w] # "lock"
           /\ CacheGet(cache, KeyOf(req[w]), now)
           /\ cache[KeyOf(req[w])].by = Four(req[w]))
             => (/\ pc'[w] = "idle"
                 /\ ret'.err = Nil
                 /\ ret'.val = cache[KeyOf(req[w])].val)]_vars

C4_MutationSerialized ==
    /\ Cardinality({w \in Workers : pc[w] = "update"}) <= 1
    /\ \A w \in Workers : pc[w] = "update" => mu = w
    /\ metadata.TotalCalls = baseCalls + okCount
    /\ Len(metadata.TokenUsageList) = baseCalls + okCount

C4_Witness == okCount >= 2 /\ metadata.TotalCalls = baseCalls + 2

\* C5: a backend error that is not a rate-limit error ends the call in the
\* step it arrives in: no backoff, no further attempt, the error returned with
\* an empty translation, cache and metadata untouched.
C5_NoRetryOnOtherError ==
    [][\A w \in Workers :
          /\ (pc[w] = "inflight" /\ pc'[w] \in {"backoff", "update"})
                => outs'[w][Len(outs'[w])] # "other"
          /\ (pc[w] = "inflight" /\ pc'[w] = "idle" /\ ret'.outs[Len(ret'.outs)] = "other")
                => (/\ ret'.err = "backend" /\ ret'.val = ""
                    /\ cache' = cache /\ metadata' = metadata /\ metaFile' = metaFile)]_vars

C5_Witness == ret.err = "backend" /\ Len(ret.outs) = maxRetries

\* C6: a call whose context is done while it waits in a backoff sleep leaves
\* the sleep only by returning the context's error, with no further attempt and
\* with the cache, the metadata and the metadata file as they were.
C6_CancelDuringBackoff ==
    [][\A w \in Workers :
          (pc[w] = "backoff" /\ cancelled[w])
             => \/ pc'[w] = "backoff"
                \/ /\ pc'[w] = "idle"
                   /\ ret'.err = "ctx" /\ ret'.val = ""
                   /\ cache' = cache /\ metadata' = metadata
                   /\ metaFile' = metaFile]_vars

C6_Witness == ret.err = "ctx" /\ ret.outs # <<>>

\* C7: a call that fails with a non-retryable backend error releases the lock
\* and changes neither the cache nor any other call; the cache never holds an
\* empty translation.
C7_FailureIsolated ==
    [][/\ \A w \in Workers :
            (pc[w] = "inflight" /\ pc'[w] = "idle" /\ ret'.err = "backend")
               => (/\ mu' = NoWorker
                   /\ cache' = cache
                   /\ \A v \in Workers \ {w} :
                         /\ pc'[v] = pc[v] /\ req'[v] = req[v]
                         /\ resp'[v] = resp[v] /\ outs'[v] = outs[v])
       /\ \A k \in DOMAIN cache' : cache'[k].val \in {r.text : r \in Responses}]_vars

\* after a failed call a sibling has taken the lock and stored its translation
C7_Witness ==
    /\ ret.err = "backend"
    /\ \E v \in Workers :
          /\ pc[v] = "update" /\ mu = v
          /\ CacheGet(cache, KeyOf(req[v]), now)
          /\ cache[KeyOf(req[v])].val = resp[v].text

\* C8: the TTL of every cache entry is the CacheTTL the caller supplied to
\* GetAnthropicTranslator when that was non-zero, and 15 minutes otherwise.
C8_TTLTunable ==
    \A k \in DOMAIN cache :
        cache[k].ttl = IF suppliedTTL # 0 THEN suppliedTTL ELSE DefaultCacheTTL

\* C9: after a crash during the write of a document the file is the complete
\* old document or the complete new one.
C9_CrashSafeWrite ==
    crashed => \A h \in Handlers :
                  hpc[h] = "writing" => disk \in {hread[h], hout[h]}

\* the request changes the elements with its translation id and nothing else
Frame(before, after, r) ==
    /\ Len(after) = Len(before)
    /\ \A i \in 1..Len(before) :
          /\ after[i].kind = before[i].kind
          /\ after[i].id = before[i].id
          /\ ParseHtml(after[i].raw) =
                IF before[i].kind = "translation" /\ before[i].id = r.TranslationID
                THEN ParseHtml(r.TranslationContent)
                ELSE ParseHtml(before[i].raw)

HasTranslationID(file, t) ==
    \E i \in 1..Len(file) : file[i].kind = "translation" /\ file[i].id = t

\* C10: the document a request writes back differs from the one it read only
\* in the content of the elements whose data-translation-id is the requested
\* one; a request whose id no element carries is answered 404 and writes
\* nothing.
C10_NoCrossSegmentMixing ==
    [][/\ \A h \in Handlers :
            (hpc[h] = "idle" /\ hpc'[h] = "write")
               => (/\ HasTranslationID(disk, hreq'[h].TranslationID)
                   /\ Frame(disk, hout'[h], hreq'[h]))
       /\ (answer'.n # answer.n /\ answer'.status = 404)
               => (/\ hpc[answer'.h] = "idle"
                   /\ ~HasTranslationID(disk, answer'.req.TranslationID)
                   /\ disk' = disk)
       /\ \A h \in Handlers, r \in TranslateRequests :
            (UpdateTranslation(h, r) /\ r.FilePath = ChapterPath
             /\ ~HasTranslationID(disk, r.TranslationID))
               => (answer'.n # answer.n /\ answer'.status = 404)]_vars

C10_Witness ==
    /\ answer.status = 200
    /\ answer.req.TranslationID = "1"
    /\ Len(disk) = Len(MarkedChapter)
    /\ ParseHtml(disk[2].raw) = ParseHtml(answer.req.TranslationContent)
    /\ ParseHtml(disk[1].raw) = ParseHtml(MarkedChapter[1].raw)
    /\ ParseHtml(disk[3].raw) = ParseHtml(MarkedChapter[3].raw)

\* the count kept for model m (0 when the map has no entry)
ModelCount(md, m) == IF m \in DOMAIN md.ModelUsage THEN md.ModelUsage[m] ELSE 0

\* C11: a call that got a translation from the backend returns only after it
\* has added 1 to TotalCalls and to the configured model's count and the
\* response's input+output tokens to the token total, and has saved the
\* metadata (or failed to); no step lowers any of these counters.
C11_UsageRecorded ==
    [][/\ \A w \in Workers :
            /\ (Returns(w) /\ ret'.outs # <<>> /\ ret'.outs[Len(ret'.outs)] = "ok")
                  => pc[w] = "update"
            /\ (pc[w] = "update" /\ pc'[w] = "idle")
                  => /\ metadata'.TotalCalls = metadata.TotalCalls + 1
                     /\ ModelCount(metadata', anthropic.Model)
                           = ModelCount(metadata, anthropic.Model) + 1
                     /\ metadata'.TokenUsage
                           = metadata.TokenUsage + resp[w].input + resp[w].output
                     /\ metaFile' \in {metaFile, FileOf(metadata')}
       /\ metadata'.TotalCalls >= metadata.TotalCalls
       /\ metadata'.TokenUsage >= metadata.TokenUsage
       /\ \A m \in DOMAIN metadata.ModelUsage :
             ModelCount(metadata', m) >= ModelCount(metadata, m)]_vars

C11_Witness ==
    /\ okCount = 1
    /\ metadata.TotalCalls = baseCalls + 1
    /\ metadata.TokenUsage = 3
    /\ metaFile = FileOf(metadata)

\* C14: when saveMetadata fails, the call that triggered it still returns the
\* translation with a nil error, and the cache entry and the counters it wrote
\* stay.
C14_SaveFailureNotPropagated ==
    [][\A w \in Workers :
          (pc[w] = "update" /\ pc'[w] = "idle" /\ metaFile' # FileOf(metadata'))
             => (/\ ret'.err = Nil
                 /\ ret'.val = resp[w].text
                 /\ cache' = cache
                 /\ metadata'.TotalCalls = metadata.TotalCalls + 1
                 /\ metaFile' = metaFile)]_vars

C14_Witness ==
    /\ okCount = 1 /\ metaFile = NoFile
    /\ ret.err = Nil /\ ret.val \in {r.text : r \in Responses}
    /\ metadata.TotalCalls = 1

\* C17: the k-th backoff sleep of a call, taken after its k-th rate-limited
\* attempt, lasts k seconds.
C17_LinearBackoff ==
    \A w \in Workers :
        /\ \A k \in 1..Len(waits[w]) : waits[w][k] = k
        /\ Len(waits[w]) = retries[w]
        /\ pc[w] = "inflight" => Len(outs[w]) = Len(waits[w])

C17_Witness == \E w \in Workers : pc[w] = "inflight" /\ waits[w] = <<1, 2>>

\* C18: the max-retries error wraps the error of the last backend attempt, and
\* Translate returns it with an empty translation.
C18_WrapsLastError ==
    [][\A w \in Workers :
          (Returns(w) /\ ret'.err = "maxretries")
             => (/\ ret'.val = ""
                 /\ ret'.cause = [kind |-> ret'.outs[Len(ret'.outs)],
                                  attempt |-> Len(ret'.outs)]
                 /\ IsRateLimitErr(ret'.cause.kind))]_vars

C18_Witness ==
    ret.err = "maxretries" /\ ret.cause = [kind |-> "ratelimit", attempt |-> maxRetries]

\* C12: after a call that stored a backend translation of content c, the
\* stored prefix of c is in PromptExamples.
C12_ExamplesHoldRecent ==
    [][\A w \in Workers :
          (pc[w] = "update" /\ pc'[w] = "idle")
             => \E i \in 1..Len(metadata'.PromptExamples) :
                   metadata'.PromptExamples[i] = Take(req[w].content, ExampleLen)]_vars

\* C13: PromptExamples and TokenUsageList never hold more entries than the
\* bound the program keeps for its samples.
C13_ListsBounded ==
    /\ Len(metadata.PromptExamples) <= MaxPromptExamples
    /\ Len(metadata.TokenUsageList) <= MaxPromptExamples

\* the metadata file gives loadMetadata nothing it can use
Unusable(file) == file \in {NoFile, UnreadableFile, TruncatedFile, MistypedFile}

\* C15: the translator created over a missing, unreadable or corrupt metadata
\* file holds the default metadata.
C15_CorruptFileIsAbsent ==
    [][(~once /\ once' /\ anthropic' # NilPtr /\ Unusable(metaFile))
          => metadata' = DefaultMetadata]_vars

\* C16: loading the file saveMetadata wrote gives back the TotalCalls, the
\* per-model counts and the token total that were saved.
C16_LoadAfterSave ==
    metaFile = FileOf(metadata)
       => LET loaded == loadMetadata(metaFile, DefaultMetadata)
          IN /\ loaded.TotalCalls = metadata.TotalCalls
             /\ loaded.ModelUsage = metadata.ModelUsage
             /\ loaded.TokenUsage = metadata.TokenUsage

\* the element with translation id t has content
HasPriorTranslation(file, t) ==
    \E i \in 1..Len(file) :
        file[i].kind = "translation" /\ file[i].id = t /\ file[i].raw # ""

\* C19: the instructions the ai-translate handler passes to Translate are the
\* element's current translation followed by the user's instructions when the
\* element with the requested translation id has content, and the user's
\* instructions as they are when it has none or does not exist.
C19_RevisionContext ==
    [][\A w \in Workers :
        (pc[w] = "idle" /\ pc'[w] = "lock") =>
          \A envKey \in EnvKeys, a \in AIRequests :
             AITranslate(w, envKey, a)
             => IF HasPriorTranslation(disk, a.TranslationID)
                THEN \E i \in 1..Len(disk) :
                        /\ disk[i].kind = "translation" /\ disk[i].id = a.TranslationID
                        /\ req'[w].prompt =
                              <<"Previous translation:\n\n",
                                RenderHtml(ParseHtml(disk[i].raw)), "\n\n">>
                              \o a.Instructions
                ELSE req'[w].prompt = a.Instructions]_vars

C19_Witness ==
    \E w \in Workers :
        /\ pc[w] = "lock"
        /\ req[w].prompt = <<"Previous translation:\n\n", "old", "\n\n", "a">>

\* the live entries written for the four values of r under another bookName
OtherBookEntries(r) ==
    {k \in DOMAIN cache :
        /\ CacheGet(cache, k, now)
        /\ cache[k].by = Four(r)
        /\ cache[k].book # r.bookName}

\* C20: a call with non-empty instructions that finds a live entry written for
\* the same instructions, content and languages under another bookName returns
\* that entry's translation without calling the backend.
C20_KeyOmitsBook ==
    [][\A w \in Workers :
          (/\ pc[w] = "lock" /\ pc'[w] # "lock"
           /\ req[w].prompt # <<>>
           /\ OtherBookEntries(req[w]) # {})
             => (/\ pc'[w] = "idle"
                 /\ ret'.err = Nil
                 /\ ret'.outs = <<>>
                 /\ \E k \in OtherBookEntries(req[w]) : ret'.val = cache[k].val)]_vars

C20_Witness ==
    /\ ret.err = Nil /\ ret.outs = <<>> /\ ret.book \in {"book1", "book2"}
    /\ \E k \in DOMAIN cache : cache[k].val = ret.val /\ cache[k].book # ret.book

\* C23: no call gets a nil translator with a nil error from
\* GetAnthropicTranslator, so Translate is never invoked on a nil translator.
C23_NeverNilTranslator ==
    \A w \in Workers : pc[w] # "panic"

\* C24: a translation returned from the cache was stored by a call with the
\* same instructions, content, source and target.
C24_HitOnlyForSameRequest ==
    [][\A w \in Workers :
          (pc[w] = "lock" /\ pc'[w] = "idle" /\ ret'.err = Nil)
             => cache[KeyOf(req[w])].by = Four(req[w])]_vars

\* the document holds the content of request r in the elements with r's id
HoldsTranslation(file, r) ==
    /\ HasTranslationID(file, r.TranslationID)
    /\ \A i \in 1..Len(file) :
          (file[i].kind = "translation" /\ file[i].id = r.TranslationID)
             => ParseHtml(file[i].raw) = ParseHtml(r.TranslationContent)

\* C25: when two requests for different translation ids of the chapter have
\* both been answered with success, the file holds both new translations.
C25_NoLostEdit ==
    [][(/\ answer.status = 200 /\ answer'.status = 200
        /\ answer'.n = answer.n + 1
        /\ answer'.req.TranslationID # answer.req.TranslationID)
          => (HoldsTranslation(disk', answer.req) /\ HoldsTranslation(disk', answer'.req))]_vars

\* C28: a backoff sleep follows only an attempt that is not the last permitted
\* one, and a call is never cancelled out of a sleep after its last attempt.
C28_NoWaitAfterLastAttempt ==
    /\ \A w \in Workers : pc[w] = "backoff" => Len(outs[w]) < maxRetries
    /\ ret.err = "ctx" => Len(ret.outs) < maxRetries

\* C21: the translator is a singleton: once GetAnthropicTranslator has built
\* the instance it is never replaced; the call that builds it takes the Model
\* of its own Config; every later call, whatever Config it hands in, leaves the
\* instance, its metadata, its cache and its lock as they are.
C21_Singleton ==
    [][/\ (anthropic # NilPtr => anthropic' = anthropic)
       /\ \A w \in Workers :
             (pc[w] = "idle" /\ pc'[w] = "lock") =>
                IF once
                THEN /\ anthropic' = anthropic
                     /\ metadata' = metadata
                     /\ cache' = cache
                     /\ mu' = mu
                ELSE /\ anthropic'.Model = lastModel'
                     /\ anthropic'.APIKey # ""]_vars

\* two callers hold the translator, and the later one handed in another Model
C21_Witness ==
    /\ anthropic # NilPtr
    /\ lastModel # anthropic.Model
    /\ \A w \in Workers : pc[w] = "lock"

\* C26: a Translate call that returns an error made no successful backend
\* call and did not pass the metadata update; its return leaves the cache,
\* the metadata and the metadata file as they are.  A call answered from the
\* cache made no backend call and its return leaves all three as they are.
\* The three change only in the step that stores a backend translation, in
\* the metadata update of a call that then returns that translation, and in
\* the loading at construction.
C26_FailedOrCachedChangesNothing ==
    [][/\ \A w \in Workers :
             Returns(w) =>
                /\ ret'.err # Nil =>
                      /\ pc[w] # "update"
                      /\ \A i \in DOMAIN ret'.outs : ret'.outs[i] # "ok"
                      /\ UNCHANGED <<cache, metadata, metaFile>>
                /\ pc[w] = "lock" =>
                      /\ ret'.outs = <<>>
                      /\ UNCHANGED <<cache, metadata, metaFile>>
       /\ (cache' # cache \/ metadata' # metadata \/ metaFile' # metaFile) =>
             \/ ~once /\ once'
             \/ \E w \in Workers :
                    \/ pc[w] = "inflight" /\ pc'[w] = "update"
                    \/ pc[w] = "update" /\ pc'[w] = "idle" /\ ret'.err = Nil]_vars

\* a call was cancelled in its backoff after an earlier call had filled the
\* cache and the metadata
C26_Witness ==
    /\ ret.err = "ctx"
    /\ DOMAIN cache # {}
    /\ metadata.TotalCalls = 1

\* the calls in progress
InCall == {"lock", "inflight", "backoff", "update"}

\* C27: under fair scheduling every Translate call in progress returns, and
\* so every caller waiting in Lock gets past it; the mutex is held only by a
\* call that is between its Lock and its return, so every return released it.
C27_TerminatesAndReleases ==
    /\ [](mu # NoWorker => pc[mu] \in {"inflight", "backoff", "update"})
    /\ \A w \in Workers : (pc[w] \in InCall) ~> (pc[w] = "idle")

\* a caller waits in Lock while the holder of the mutex sleeps in a backoff
C27_Witness ==
    \E w, v \in Workers : pc[w] = "lock" /\ pc[v] = "backoff" /\ mu = v

\* the order in which runSelfUpgrade goes through its steps
UpgradeSteps == <<"checkVersion", "getUserConfirmation", "downloadFile",
                  "verifyChecksum", "extractTarGz", "installBinary">>

\* installBinary was entered
InstallEntered == \E i \in DOMAIN calls : calls[i] = "installBinary"

\* C22: the steps of the upgrade are entered in their order, each only after
\* the one before it; the executable differs from the original only if
\* installBinary was entered; and installBinary is entered only when the
\* latest version is strictly greater than the current one, the user's answer
\* was "y" (trimmed, in either case), an asset was downloaded and its SHA-256
\* is the checksum file's entry for it.
C22_UpgradeGating ==
    /\ calls = SubSeq(UpgradeSteps, 1, Len(calls))
    /\ exe # OldBinary => InstallEntered
    /\ InstallEntered =>
          /\ latest > CurrentVersion
          /\ response \in {"y", "Y", " y "}
          /\ tmpFile \in Assets
          /\ expected = Sha(tmpFile)

\* the upgrade ran to its end and the new binary is installed
C22_Witness ==
    /\ upc = "done"
    /\ uerr = Nil
    /\ exe = BinaryOf("new")

\* C30: when installBinary has returned, the executable path holds the
\* complete new binary if it returned nil and the complete original binary
\* if it returned an error; and while the backup is gone the executable path
\* holds one of the two.
C30_ExecutableNeverLost ==
    /\ (upc = "done" /\ InstallEntered) =>
          IF uerr = Nil THEN exe = BinaryOf(tmpFile) ELSE exe = OldBinary
    /\ (InstallEntered /\ bak = NoBinary) => exe \in {OldBinary, BinaryOf(tmpFile)}

\* a path lies inside the content directory
Inside(path) ==
    /\ Len(path) > Len(contentDirPath)
    /\ SubSeq(path, 1, Len(contentDirPath)) = contentDirPath

\* C29: the file a handler has opened lies inside the content directory, and
\* the file outside it is never written.
C29_AccessConfined ==
    /\ \A h \in Handlers : hpc[h] # "idle" => Inside(hpath[h])
    /\ outside = OtherChapter
====
